---- MODULE Spec2Model ----
(***************************************************************************)
(* Model of services/ledger/merkletree/tree.rs: the Tree enum, its         *)
(* constructors and metrics, the rustc_serialize codec (Encodable /        *)
(* Decodable for Tree) and the two leaf iterators (LeavesIterator,         *)
(* LeavesIntoIterator).                                                    *)
(*                                                                         *)
(* Rust values are represented as follows.                                 *)
(*   Option<T>      None == <<>>, Some(x) == <<x>>                         *)
(*   Vec<u8>        a sequence of small numbers                            *)
(*   Tree           a record [type, hash, ...] per enum variant            *)
(*   &'a Tree       the value of the borrowed subtree (the tree is not     *)
(*                  mutated while it is borrowed)                          *)
(*   wire data      what an Encoder was asked to emit: Str, Bytes, or a    *)
(*                  Struct holding the emitted fields (name, idx, val)     *)
(*                  in emission order                                      *)
(***************************************************************************)
EXTENDS Integers, Sequences, FiniteSets

\* ------------------------------------------------------------------ bounds
MaxHeight == 2
MaxRecordDepth == 1
MaxCalls == 10

\* ------------------------------------------------------------ Rust options
None == <<>>
Some(x) == <<x>>

\* ------------------------------------------------- leaf data and digests
\* TreeLeafData = String; two distinct payloads.
TreeLeafData == {"a", "b"}

\* Byte image of a leaf payload (input of the hash capability).
LeafBytes(value) == IF value = "a" THEN 97 ELSE 98

\* Hash capability (HashUtils).  Digests are byte vectors; the capability
\* is modelled as a collision-free prefix code over its inputs.
empty_digest == <<0>>
hash_leaf(value) == <<1, LeafBytes(value)>>
hash_nodes(left, right) == <<2>> \o left \o right

\* Digests a caller may hand to Tree::empty / Tree::new, and that a
\* record read from storage may carry.
Digests == {empty_digest, hash_leaf("a")}

\* ---------------------------------------------------------------- enum Tree
Empty(hash) == [type |-> "Empty", hash |-> hash]
Leaf(hash, value) == [type |-> "Leaf", hash |-> hash, value |-> value]
Node(hash, left, right) ==
    [type |-> "Node", hash |-> hash, left |-> left, right |-> right]

Tree_empty(hash) == Empty(hash)

Tree_new(hash, value) == Leaf(hash, value)

Tree_new_leaf_no_hash(value) == Tree_new(empty_digest, value)
Tree_new_leaf(value) == Tree_new(hash_leaf(value), value)

Tree_hash(self) == self.hash

RECURSIVE get_height_min(_)
get_height_min(self) ==
    CASE self.type = "Empty" -> 0
      [] self.type = "Node" ->
            LET l == get_height_min(self.left)
                r == get_height_min(self.right)
            IN  1 + (IF l >= r THEN r ELSE l)
      [] self.type = "Leaf" -> 0

RECURSIVE get_height(_)
get_height(self) ==
    CASE self.type = "Empty" -> 0
      [] self.type = "Node" ->
            LET l == get_height(self.left)
                r == get_height(self.right)
            IN  1 + (IF l >= r THEN l ELSE r)
      [] self.type = "Leaf" -> 0

RECURSIVE get_count(_)
get_count(self) ==
    CASE self.type = "Empty" -> 0
      [] self.type = "Node" -> get_count(self.left) + get_count(self.right)
      [] self.type = "Leaf" -> 1

\* Node assembly as the builder performs it: the digest is the combination
\* of the children's digests.
AssembleNode(left, right) ==
    Node(hash_nodes(Tree_hash(left), Tree_hash(right)), left, right)

\* All Tree values of height <= n, Empty subtrees in any position.
RECURSIVE TreesUpTo(_)
TreesUpTo(n) ==
    LET base == {Tree_empty(empty_digest)}
                \cup {Tree_new_leaf(v) : v \in TreeLeafData}
    IN  IF n = 0 THEN base
        ELSE LET sub == TreesUpTo(n - 1)
             IN  base \cup {AssembleNode(l, r) : l \in sub, r \in sub}

Trees == TreesUpTo(MaxHeight)

\* ------------------------------------------------------------ the iterators
\* Iterator state: self == [current_value, right_nodes].  right_nodes is a
\* Vec used as a stack: push appends, pop removes the last element.
IterState(cv, rn) == [current_value |-> cv, right_nodes |-> rn]

\* LeavesIterator::add_left (loop as tail recursion on the working subtree).
RECURSIVE LeavesIterator_add_left_right_first(_, _)
LeavesIterator_add_left_right_first(self, tree) ==
    CASE tree.type = "Empty" -> [self EXCEPT !.current_value = None]
      [] tree.type = "Node" ->
            LeavesIterator_add_left_right_first(
                [self EXCEPT !.right_nodes = Append(@, tree.left)], tree.right)
      [] tree.type = "Leaf" -> [self EXCEPT !.current_value = Some(tree.value)]

RECURSIVE LeavesIterator_add_left(_, _)
LeavesIterator_add_left(self, tree) ==
    CASE tree.type = "Empty" -> [self EXCEPT !.current_value = None]
      [] tree.type = "Node" ->
            LeavesIterator_add_left(
                [self EXCEPT !.right_nodes = Append(@, tree.right)], tree.left)
      [] tree.type = "Leaf" -> [self EXCEPT !.current_value = Some(tree.value)]

LeavesIterator_new(root) == LeavesIterator_add_left(IterState(None, <<>>), root)

\* LeavesIterator::next: returns [self |-> state after the call, result].
LeavesIterator_next(self) ==
    LET result == self.current_value
        taken  == [self EXCEPT !.current_value = None]
        n      == Len(taken.right_nodes)
    IN  IF n > 0
        THEN [self |-> LeavesIterator_add_left(
                           [taken EXCEPT !.right_nodes = SubSeq(@, 1, n - 1)],
                           taken.right_nodes[n]),
              result |-> result]
        ELSE [self |-> taken, result |-> result]

\* LeavesIntoIterator::add_left (owned subtrees).
RECURSIVE LeavesIntoIterator_add_left(_, _)
LeavesIntoIterator_add_left(self, tree) ==
    CASE tree.type = "Empty" -> [self EXCEPT !.current_value = None]
      [] tree.type = "Node" ->
            LeavesIntoIterator_add_left(
                [self EXCEPT !.right_nodes = Append(@, tree.right)], tree.left)
      [] tree.type = "Leaf" -> [self EXCEPT !.current_value = Some(tree.value)]

LeavesIntoIterator_new(root) ==
    LeavesIntoIterator_add_left(IterState(None, <<>>), root)

LeavesIntoIterator_next_no_take(self) ==
    LET result == self.current_value
        n      == Len(self.right_nodes)
    IN  IF n > 0
        THEN [self |-> LeavesIntoIterator_add_left(
                           [self EXCEPT !.right_nodes = SubSeq(@, 1, n - 1)],
                           self.right_nodes[n]),
              result |-> result]
        ELSE [self |-> self, result |-> result]

LeavesIntoIterator_next(self) ==
    LET result == self.current_value
        taken  == [self EXCEPT !.current_value = None]
        n      == Len(taken.right_nodes)
    IN  IF n > 0
        THEN [self |-> LeavesIntoIterator_add_left(
                           [taken EXCEPT !.right_nodes = SubSeq(@, 1, n - 1)],
                           taken.right_nodes[n]),
              result |-> result]
        ELSE [self |-> taken, result |-> result]

\* Number of iterations of the add_left loop on a given subtree.
RECURSIVE add_left_iterations(_)
add_left_iterations(tree) ==
    IF tree.type = "Node" THEN 1 + add_left_iterations(tree.left) ELSE 1

\* ---------------------------------------------------------------- the codec
\* What an Encoder is asked to emit.
Str(s) == [k |-> "str", s |-> s]
Bytes(b) == [k |-> "bytes", b |-> b]
Struct(fields) == [k |-> "struct", f |-> fields]

\* emit_struct_field(name, idx, value)
Field(name, idx, val) == [name |-> name, idx |-> idx, val |-> val]

\* impl Encodable for Tree
RECURSIVE encode_leaf_three_fields(_)
encode_leaf_three_fields(self) ==
    CASE self.type = "Empty" ->
            Struct(<< Field("type", 0, Str("empty")),
                      Field("hash", 1, Bytes(self.hash)),
                      Field("", 2, Str("")),
                      Field("", 3, Str("")) >>)
      [] self.type = "Node" ->
            Struct(<< Field("type", 0, Str("node")),
                      Field("hash", 1, Bytes(self.hash)),
                      Field("left", 2, encode_leaf_three_fields(self.left)),
                      Field("right", 3, encode_leaf_three_fields(self.right)) >>)
      [] self.type = "Leaf" ->
            Struct(<< Field("type", 0, Str("leaf")),
                      Field("hash", 1, Bytes(self.hash)),
                      Field("value", 2, Str(self.value)) >>)

RECURSIVE encode(_)
encode(self) ==
    CASE self.type = "Empty" ->
            Struct(<< Field("type", 0, Str("empty")),
                      Field("hash", 1, Bytes(self.hash)),
                      Field("", 2, Str("")),
                      Field("", 3, Str("")) >>)
      [] self.type = "Node" ->
            Struct(<< Field("type", 0, Str("node")),
                      Field("hash", 1, Bytes(self.hash)),
                      Field("left", 2, encode(self.left)),
                      Field("right", 3, encode(self.right)) >>)
      [] self.type = "Leaf" ->
            Struct(<< Field("type", 0, Str("leaf")),
                      Field("hash", 1, Bytes(self.hash)),
                      Field("value", 2, Str(self.value)),
                      Field("", 3, Str("")) >>)

\* How a Decoder locates the field asked for by read_struct_field(name, idx):
\* by its name (a keyed format such as rustc_serialize::json, which ignores
\* idx) or by its position (a positional format, which ignores name).
DecoderKinds == {"by_name", "by_index"}

\* read_struct_field(name, idx) on the record rec: Some(value) or None when
\* the record has no such field.  A keyed record keeps the last value
\* written under a name.
read_struct_field(kind, rec, name, idx) ==
    IF kind = "by_name"
    THEN LET hits == {i \in 1..Len(rec.f) : rec.f[i].name = name}
         IN  IF hits = {} THEN None
             ELSE Some(rec.f[CHOOSE i \in hits : \A j \in hits : j <= i].val)
    ELSE IF idx + 1 <= Len(rec.f) THEN Some(rec.f[idx + 1].val) ELSE None

\* Result<Tree, D::Error>; reads lists the (name, idx) pairs this call
\* passed to read_struct_field on its own record.
Ok(tree, reads) == [ok |-> TRUE, tree |-> tree, reads |-> reads]
Err(msg, reads) == [ok |-> FALSE, err |-> msg, reads |-> reads]

Req(name, idx) == [name |-> name, idx |-> idx]

\* impl Decodable for Tree
RECURSIVE decode_bad_type_as_empty(_, _)
decode_bad_type_as_empty(kind, d) ==
    IF d.k # "struct" THEN Err("expected struct", <<>>) ELSE
    LET r1 == << Req("type", 0) >>
        nodetype == read_struct_field(kind, d, "type", 0)
    IN
    IF nodetype = None \/ nodetype[1].k # "str"
    THEN Err("type: expected string", r1) ELSE
    LET r2 == Append(r1, Req("hash", 0))
        hash == read_struct_field(kind, d, "hash", 0)
    IN
    IF hash = None \/ hash[1].k # "bytes"
    THEN Err("hash: expected bytes", r2) ELSE
    CASE nodetype[1].s = "empty" -> Ok(Empty(hash[1].b), r2)
      [] nodetype[1].s = "node" ->
            LET r3 == Append(r2, Req("left", 1))
                lf == read_struct_field(kind, d, "left", 1)
                left == IF lf = None THEN Err("left: missing", <<>>)
                        ELSE decode_bad_type_as_empty(kind, lf[1])
            IN
            IF ~left.ok THEN Err(left.err, r3) ELSE
            LET r4 == Append(r3, Req("right", 2))
                rf == read_struct_field(kind, d, "right", 2)
                right == IF rf = None THEN Err("right: missing", <<>>)
                         ELSE decode_bad_type_as_empty(kind, rf[1])
            IN
            IF ~right.ok THEN Err(right.err, r4)
            ELSE Ok(Node(hash[1].b, left.tree, right.tree), r4)
      [] nodetype[1].s = "leaf" ->
            LET r3 == Append(r2, Req("value", 1))
                value == read_struct_field(kind, d, "value", 1)
            IN
            IF value = None \/ value[1].k # "str"
            THEN Err("value: expected string", r3)
            ELSE Ok(Leaf(hash[1].b, value[1].s), r3)
      [] OTHER -> Ok(Empty(hash[1].b), r2)

RECURSIVE decode(_, _)
decode(kind, d) ==
    IF d.k # "struct" THEN Err("expected struct", <<>>) ELSE
    LET r1 == << Req("type", 0) >>
        nodetype == read_struct_field(kind, d, "type", 0)
    IN
    IF nodetype = None \/ nodetype[1].k # "str"
    THEN Err("type: expected string", r1) ELSE
    LET r2 == Append(r1, Req("hash", 0))
        hash == read_struct_field(kind, d, "hash", 0)
    IN
    IF hash = None \/ hash[1].k # "bytes"
    THEN Err("hash: expected bytes", r2) ELSE
    CASE nodetype[1].s = "empty" -> Ok(Empty(hash[1].b), r2)
      [] nodetype[1].s = "node" ->
            LET r3 == Append(r2, Req("left", 1))
                lf == read_struct_field(kind, d, "left", 1)
                left == IF lf = None THEN Err("left: missing", <<>>)
                        ELSE decode(kind, lf[1])
            IN
            IF ~left.ok THEN Err(left.err, r3) ELSE
            LET r4 == Append(r3, Req("right", 2))
                rf == read_struct_field(kind, d, "right", 2)
                right == IF rf = None THEN Err("right: missing", <<>>)
                         ELSE decode(kind, rf[1])
            IN
            IF ~right.ok THEN Err(right.err, r4)
            ELSE Ok(Node(hash[1].b, left.tree, right.tree), r4)
      [] nodetype[1].s = "leaf" ->
            LET r3 == Append(r2, Req("value", 1))
                value == read_struct_field(kind, d, "value", 1)
            IN
            IF value = None \/ value[1].k # "str"
            THEN Err("value: expected string", r3)
            ELSE Ok(Leaf(hash[1].b, value[1].s), r3)
      [] OTHER -> Err("bad node type", r2)

\* Records a decoder may be handed from storage or the network: the
\* four-field layout with any tag, nested up to depth n.
RECURSIVE RecordsUpTo(_)
RecordsUpTo(n) ==
    LET flat == {Struct(<< Field("type", 0, Str(tag)),
                           Field("hash", 1, Bytes(h)),
                           Field("", 2, Str("")),
                           Field("", 3, Str("")) >>)
                    : tag \in {"empty", "bogus"}, h \in Digests}
                \cup
                {Struct(<< Field("type", 0, Str("leaf")),
                           Field("hash", 1, Bytes(h)),
                           Field("value", 2, Str(v)),
                           Field("", 3, Str("")) >>)
                    : h \in Digests, v \in TreeLeafData}
    IN  IF n = 0 THEN flat
        ELSE LET sub == RecordsUpTo(n - 1)
             IN  flat \cup
                 {Struct(<< Field("type", 0, Str("node")),
                            Field("hash", 1, Bytes(h)),
                            Field("left", 2, l),
                            Field("right", 3, r) >>)
                     : h \in Digests, l \in sub, r \in sub}

Records == RecordsUpTo(MaxRecordDepth)

\* -------------------------------------------------------------------- state
VARIABLES
    tree,           \* Option<Tree>: the tree the caller holds
    call,           \* the constructor call that produced tree
    it,             \* "none" | "borrow" (LeavesIterator) | "into" (LeavesIntoIterator)
    current_value,  \* iterator field: Option<TreeLeafData>
    right_nodes,    \* iterator field: Vec<Tree>
    returned,       \* results of the next() calls made so far, in call order
    decoder,        \* kind of Decoder in use
    wire,           \* Option: the record written by encode or received
    wire_src,       \* "none" | "encode" | "received"
    decoded         \* Option<Result<Tree, D::Error>> of the last decode

vars == << tree, call, it, current_value, right_nodes, returned,
           decoder, wire, wire_src, decoded >>

iter_vars == << it, current_value, right_nodes, returned >>
codec_vars == << decoder, wire, wire_src, decoded >>

\* ---------------------------------------------------------------- traversal
\* A caller holds a tree and has not started a traversal.
Init ==
    /\ tree \in {Some(t) : t \in Trees}
    /\ call = [op |-> "given"]
    /\ it = "none"
    /\ current_value = None
    /\ right_nodes = <<>>
    /\ returned = <<>>
    /\ decoder = "by_name"
    /\ wire = None
    /\ wire_src = "none"
    /\ decoded = None

\* Tree::iter
Iter ==
    /\ it = "none"
    /\ tree # None
    /\ LET self == LeavesIterator_new(tree[1])
       IN  /\ it' = "borrow"
           /\ current_value' = self.current_value
           /\ right_nodes' = self.right_nodes
    /\ UNCHANGED << tree, call, returned, codec_vars >>

\* Tree::into_iter
IntoIter ==
    /\ it = "none"
    /\ tree # None
    /\ LET self == LeavesIntoIterator_new(tree[1])
       IN  /\ it' = "into"
           /\ current_value' = self.current_value
           /\ right_nodes' = self.right_nodes
    /\ UNCHANGED << tree, call, returned, codec_vars >>

\* One call of LeavesIterator::next by the caller.
NextBorrow ==
    /\ it = "borrow"
    /\ Len(returned) < MaxCalls
    /\ LET r == LeavesIterator_next(IterState(current_value, right_nodes))
       IN  /\ current_value' = r.self.current_value
           /\ right_nodes' = r.self.right_nodes
           /\ returned' = Append(returned, r.result)
    /\ UNCHANGED << tree, call, it, codec_vars >>

\* One call of LeavesIntoIterator::next by the caller.
NextInto ==
    /\ it = "into"
    /\ Len(returned) < MaxCalls
    /\ LET r == LeavesIntoIterator_next(IterState(current_value, right_nodes))
       IN  /\ current_value' = r.self.current_value
           /\ right_nodes' = r.self.right_nodes
           /\ returned' = Append(returned, r.result)
    /\ UNCHANGED << tree, call, it, codec_vars >>

Next == Iter \/ IntoIter \/ NextBorrow \/ NextInto

Spec == Init /\ [][Next]_vars

\* A caller that keeps calling next().
LiveSpec == Init /\ [][Next]_vars /\ WF_vars(Next)

\* --------------------------------------------------- construction and codec
CodecInit ==
    /\ tree \in {None} \cup {Some(t) : t \in Trees}
    /\ call = (IF tree = None THEN [op |-> "none"] ELSE [op |-> "given"])
    /\ it = "none"
    /\ current_value = None
    /\ right_nodes = <<>>
    /\ returned = <<>>
    /\ decoder \in DecoderKinds
    /\ wire = None
    /\ wire_src = "none"
    /\ decoded = None

CallEmpty(hash) ==
    /\ tree = None /\ wire = None
    /\ tree' = Some(Tree_empty(hash))
    /\ call' = [op |-> "empty", hash |-> hash]
    /\ UNCHANGED << iter_vars, codec_vars >>

CallNew(hash, value) ==
    /\ tree = None /\ wire = None
    /\ tree' = Some(Tree_new(hash, value))
    /\ call' = [op |-> "new", hash |-> hash, value |-> value]
    /\ UNCHANGED << iter_vars, codec_vars >>

CallNewLeaf(value) ==
    /\ tree = None /\ wire = None
    /\ tree' = Some(Tree_new_leaf(value))
    /\ call' = [op |-> "new_leaf", value |-> value]
    /\ UNCHANGED << iter_vars, codec_vars >>

\* tree.encode(&mut encoder)
Encode ==
    /\ tree # None /\ wire = None
    /\ wire' = Some(encode(tree[1]))
    /\ wire_src' = "encode"
    /\ UNCHANGED << tree, call, iter_vars, decoder, decoded >>

\* A record arrives from storage or the network.
Receive(rec) ==
    /\ tree = None /\ wire = None
    /\ wire' = Some(rec)
    /\ wire_src' = "received"
    /\ UNCHANGED << tree, call, iter_vars, decoder, decoded >>

\* Tree::decode(&mut decoder)
Decode ==
    /\ wire # None /\ decoded = None
    /\ decoded' = Some(decode(decoder, wire[1]))
    /\ UNCHANGED << tree, call, iter_vars, decoder, wire, wire_src >>

CodecNext ==
    \/ \E h \in Digests : CallEmpty(h)
    \/ \E h \in Digests, v \in TreeLeafData : CallNew(h, v)
    \/ \E v \in TreeLeafData : CallNewLeaf(v)
    \/ Encode
    \/ \E rec \in Records : Receive(rec)
    \/ Decode

CodecSpec == CodecInit /\ [][CodecNext]_vars

\* ------------------------------------------------------- traversal claims
\* Iterator state in which nothing is left to produce.
Exhausted == it # "none" /\ current_value = None /\ right_nodes = <<>>

\* Reference enumeration: left-to-right depth-first list of leaf values.
RECURSIVE Leaves(_)
Leaves(t) ==
    CASE t.type = "Empty" -> <<>>
      [] t.type = "Leaf" -> << t.value >>
      [] t.type = "Node" -> Leaves(t.left) \o Leaves(t.right)

\* The values carried by the non-none results of a call log.
RECURSIVE NonNone(_)
NonNone(log) ==
    IF log = <<>> THEN <<>>
    ELSE IF Head(log) = None THEN NonNone(Tail(log))
         ELSE << Head(log)[1] >> \o NonNone(Tail(log))

\* Number of results before the first none in a call log.
RECURSIVE ItemsBeforeNone(_)
ItemsBeforeNone(log) ==
    IF log = <<>> \/ Head(log) = None THEN 0
    ELSE 1 + ItemsBeforeNone(Tail(log))

HasNone(log) == \E i \in 1..Len(log) : log[i] = None

\* C1: once a traversal (borrowing or consuming) has been driven to the
\* state current_value = none and right_nodes empty, the non-none values
\* returned by next(), in call order, are exactly the leaves of the tree in
\* left-to-right depth-first order, each once.
C1_LeavesInOrder ==
    Exhausted => NonNone(returned) = Leaves(tree[1])

\* C1 witness: a finished traversal of a tree whose leftmost position is an
\* Empty subtree and that holds three leaves.
C1_Witness ==
    /\ Exhausted
    /\ tree[1].type = "Node"
    /\ tree[1].left.type = "Node"
    /\ tree[1].left.left.type = "Empty"
    /\ get_count(tree[1]) = 3
    /\ Len(NonNone(returned)) = 3

\* C2: the number of items t.iter() yields before its first none result
\* equals t.get_count().
C2_CountMatchesIteration ==
    (it = "borrow" /\ HasNone(returned))
        => ItemsBeforeNone(returned) = get_count(tree[1])

\* C7: once a call to next() has returned none and right_nodes is empty,
\* every later call to next() returns none as well.
C7_NoneIsFinal ==
    [][ ( /\ it # "none"
          /\ returned # <<>>
          /\ returned[Len(returned)] = None
          /\ right_nodes = <<>>
          /\ returned' # returned )
        => returned'[Len(returned')] = None ]_vars

\* C9: in every state of a traversal (after construction of the iterator
\* and after each next() call) right_nodes holds at most get_height()
\* entries.
C9_StackBoundedByHeight ==
    it # "none" => Len(right_nodes) <= get_height(tree[1])

\* C9 witness: a traversal whose stack is as deep as a tree of height two.
C9_Witness ==
    /\ it # "none"
    /\ get_height(tree[1]) = 2
    /\ Len(right_nodes) = 2

\* C10: a caller that keeps calling next() reaches current_value = none
\* with right_nodes empty and stays there; in that state next() returns
\* none and leaves the iterator unchanged; and every add_left descent on a
\* pending subtree ends within get_height() + 1 iterations of its loop.
C10_TraversalFinite ==
    /\ <>[]Exhausted
    /\ [][ Exhausted =>
             /\ current_value' = current_value
             /\ right_nodes' = right_nodes
             /\ (returned' # returned => returned'[Len(returned')] = None)
         ]_vars
    /\ [](\A i \in 1..Len(right_nodes) :
             add_left_iterations(right_nodes[i]) <= get_height(tree[1]) + 1)

\* C10 witness: next() was called twice after the traversal of a two-leaf
\* tree was exhausted.
C10_Witness ==
    /\ Exhausted
    /\ get_count(tree[1]) = 2
    /\ Len(returned) >= Len(Leaves(tree[1])) + 3
    /\ returned[Len(returned)] = None
    /\ returned[Len(returned) - 1] = None

\* ----------------------------------------------------------- codec claims
\* Digest consistency of a tree: every Leaf stores hash_leaf(value), every
\* Node stores hash_nodes of its children's digests.
RECURSIVE DigestConsistent(_)
DigestConsistent(t) ==
    CASE t.type = "Empty" -> TRUE
      [] t.type = "Leaf" -> t.hash = hash_leaf(t.value)
      [] t.type = "Node" ->
            /\ t.hash = hash_nodes(Tree_hash(t.left), Tree_hash(t.right))
            /\ DigestConsistent(t.left)
            /\ DigestConsistent(t.right)

\* The same property read off a four-field record.
RECURSIVE RecordDigestConsistent(_)
RecordDigestConsistent(rec) ==
    LET tag == rec.f[1].val.s
        h   == rec.f[2].val.b
    IN  CASE tag = "leaf" -> h = hash_leaf(rec.f[3].val.s)
          [] tag = "node" ->
                /\ h = hash_nodes(rec.f[3].val.f[2].val.b,
                                  rec.f[4].val.f[2].val.b)
                /\ RecordDigestConsistent(rec.f[3].val)
                /\ RecordDigestConsistent(rec.f[4].val)
          [] OTHER -> TRUE

\* A record, or one of the sub-records in its left / right fields, carries
\* a tag other than "empty", "node", "leaf".
RECURSIVE HasBadTag(_)
HasBadTag(rec) ==
    LET tag == rec.f[1].val.s
    IN  \/ tag \notin {"empty", "node", "leaf"}
        \/ /\ tag = "node"
           /\ (HasBadTag(rec.f[3].val) \/ HasBadTag(rec.f[4].val))

\* The record has the four-field shape of the wire table for tree t.
RECURSIVE FourFieldShape(_, _)
FourFieldShape(rec, t) ==
    /\ rec.k = "struct"
    /\ Len(rec.f) = 4
    /\ \A i \in 1..4 : rec.f[i].idx = i - 1
    /\ rec.f[2].val = Bytes(t.hash)
    /\ CASE t.type = "Empty" ->
              /\ rec.f[1].val = Str("empty")
              /\ rec.f[3].val = Str("")
              /\ rec.f[4].val = Str("")
         [] t.type = "Leaf" ->
              /\ rec.f[1].val = Str("leaf")
              /\ rec.f[3].val = Str(t.value)
              /\ rec.f[4].val = Str("")
         [] t.type = "Node" ->
              /\ rec.f[1].val = Str("node")
              /\ FourFieldShape(rec.f[3].val, t.left)
              /\ FourFieldShape(rec.f[4].val, t.right)

RoundTripDone == wire_src = "encode" /\ decoded # None

\* C3: decode(encode(t)) succeeds and equals t.
C3_RoundTrip ==
    RoundTripDone => (decoded[1].ok /\ decoded[1].tree = tree[1])

\* With a Decoder that locates fields by name the indices decode passes
\* are not used, and the round trip returns the tree that was encoded.
RoundTripByName ==
    (RoundTripDone /\ decoder = "by_name")
        => (decoded[1].ok /\ decoded[1].tree = tree[1])

\* C4 as claimed: every tree produced by empty, new, new_leaf or decode is
\* digest consistent.
C4_AllTreesConsistent ==
    /\ (tree # None => DigestConsistent(tree[1]))
    /\ ((decoded # None /\ decoded[1].ok) => DigestConsistent(decoded[1].tree))

\* C4 amended: new_leaf stores hash_leaf(value); empty, new and decode
\* store the digest they are given, so a tree from new or decode is digest
\* consistent exactly when the digest or record supplied to it was.
C4_ConsistentWhenInputIs ==
    /\ call.op = "new_leaf" => DigestConsistent(tree[1])
    /\ call.op = "empty" => Tree_hash(tree[1]) = call.hash
    /\ call.op = "new" =>
          /\ Tree_hash(tree[1]) = call.hash
          /\ DigestConsistent(tree[1]) <=> (call.hash = hash_leaf(call.value))
    /\ (decoded # None /\ decoded[1].ok) =>
          (DigestConsistent(decoded[1].tree) <=> RecordDigestConsistent(wire[1]))

\* C4 witness: decode accepted a node record whose digest is not the
\* combination of its children's digests.
C4_Witness ==
    /\ decoded # None
    /\ decoded[1].ok
    /\ decoded[1].tree.type = "Node"
    /\ ~DigestConsistent(decoded[1].tree)

\* C5: decoding a record that carries a tag other than "empty", "node",
\* "leaf", at the top or in a nested left / right sub-record, fails and
\* yields no tree.
C5_BadTagFails ==
    (decoded # None /\ HasBadTag(wire[1]))
        => (~decoded[1].ok /\ "tree" \notin DOMAIN decoded[1])

\* C5 witness: a keyed decoder rejected a node record whose left sub-record
\* is sound and whose right sub-record has a bad tag.
C5_Witness ==
    /\ decoded # None
    /\ decoder = "by_name"
    /\ wire[1].f[1].val.s = "node"
    /\ ~HasBadTag(wire[1].f[3].val)
    /\ HasBadTag(wire[1].f[4].val)
    /\ ~decoded[1].ok
    /\ decoded[1].err = "bad node type"

\* C6: encode emits, for every node of the tree, a record of exactly four
\* fields at indices 0..3: tag, digest, then "" / leaf value / left
\* subtree, then "" / "" / right subtree.
C6_FourFields ==
    wire_src = "encode" => FourFieldShape(wire[1], tree[1])

\* C6 witness: an encoded node with a Leaf child and an Empty child.
C6_Witness ==
    /\ wire_src = "encode"
    /\ tree[1].type = "Node"
    /\ tree[1].left.type = "Leaf"
    /\ tree[1].right.type = "Empty"
    /\ Len(wire[1].f[3].val.f) = 4

\* C8: every field decode asks for is asked for under the name and at the
\* index at which encode emitted it, and a decoder that locates fields by
\* position reads back what encode wrote.
C8_SameNameAndIndex ==
    RoundTripDone =>
        /\ \A i \in 1..Len(decoded[1].reads) :
              \E j \in 1..Len(wire[1].f) :
                  /\ wire[1].f[j].name = decoded[1].reads[i].name
                  /\ wire[1].f[j].idx = decoded[1].reads[i].idx
        /\ (decoder = "by_index" =>
              (decoded[1].ok /\ decoded[1].tree = tree[1]))

====
